---- MODULE Spec2Model ----
(***************************************************************************)
(* GPU Stress Test Online (src/main.js, second copy of the script, lines   *)
(* 1846-4494): the test-run lifecycle, the frame-rate sampler, the running *)
(* statistics, the two scorers and the persisted result history.           *)
(*                                                                         *)
(* Numbers.  FPS values, frame counts and scores are JavaScript numbers    *)
(* that are integers or one of Infinity, -Infinity, NaN; the three special *)
(* values are the integers Infinity, NegInfinity and NaN below, which no   *)
(* finite quantity of the model reaches.  Temperatures are fractional:     *)
(* they are kept in units of 1/TempScale degree, the unit in which         *)
(* 65 + elapsedSeconds * 0.5 * multiplier is exact for a millisecond       *)
(* clock.  Math.round(p/q) is computed exactly as floor(p/q + 1/2).        *)
(* Time is Date.now() in milliseconds.                                     *)
(***************************************************************************)
EXTENDS Integers, Sequences, FiniteSets, TLC

\* ------------------------------------------------------------ bounds ----
\* largest cumulative frame count of one run that the model explores
MaxFrames == 3
\* a run's clock is advanced in fine steps during its first FineWindow ms
FineWindow == 2000
\* how many runs are started
MaxStarts == 2
\* the calls of startGPUTest made from outside the handlers are explored
\* while fewer than MaxCallStarts starts have happened
MaxCallStarts == 1
\* the clock advances during the first TimedRuns runs; later runs are
\* explored at the instant they start
TimedRuns == 1
\* how many times the emergency handlers are installed on the level buttons
MaxBackup == 1
\* how many times initializeApplication completes (it can be triggered twice)
MaxInits == 1
\* clock advances between two events, in ms: one and five seconds, and all
\* but the last tenth of a second of a run
ClockSteps == {1000, 5000, 29900}
\* a long pause of the frame pump (tab in the background), in ms
LongPause == 30000
\* the two reads of Date.now() in a start function differ by 0 or 1 ms
Skews == {0, 1}
\* Math.random() * 3 - 1.5, in units of 1/TempScale degree
NoiseSet == {-30000, 29999}
\* how many results are appended to the history in SpecStore
MaxSaves == 12
\* levels the user clicks in the lifecycle specification
ClickLevels == {"medium", "extreme"}

\* ------------------------------------------------- program constants ----
Infinity == 99999999
NegInfinity == -99999999
NaN == -77777777
JsonNull == -66666666
TempScale == 20000
Epoch == 100000
testDuration == 30
HistoryLimit == 10
BaseTemp == 65
maxWaitTime == 10000
PollPeriod == 100
MaxTemp == 90

Levels == {"light", "medium", "heavy", "extreme"}

\* the table with the desktop baseline of Heavy taken from Medium
testLevelsHeavyAsMedium ==
  [light   |-> [objects |-> 50,  multiplier10 |-> 7,
                expectedFPS |-> [desktop |-> 45, mobile |-> 30]],
   medium  |-> [objects |-> 150, multiplier10 |-> 10,
                expectedFPS |-> [desktop |-> 35, mobile |-> 22]],
   heavy   |-> [objects |-> 300, multiplier10 |-> 13,
                expectedFPS |-> [desktop |-> 35, mobile |-> 15]],
   extreme |-> [objects |-> 500, multiplier10 |-> 16,
                expectedFPS |-> [desktop |-> 18, mobile |-> 10]]]

testLevels ==
  [light   |-> [objects |-> 50,  multiplier10 |-> 7,
                expectedFPS |-> [desktop |-> 45, mobile |-> 30]],
   medium  |-> [objects |-> 150, multiplier10 |-> 10,
                expectedFPS |-> [desktop |-> 35, mobile |-> 22]],
   heavy   |-> [objects |-> 300, multiplier10 |-> 13,
                expectedFPS |-> [desktop |-> 25, mobile |-> 15]],
   extreme |-> [objects |-> 500, multiplier10 |-> 16,
                expectedFPS |-> [desktop |-> 18, mobile |-> 10]]]

\* the object literal assigned to testResults at declaration and at each reset
InitialResults ==
  [minFPS |-> Infinity, maxFPS |-> 0, avgFPS |-> 0,
   maxTemp |-> BaseTemp * TempScale, stability |-> 100, score |-> 0]

\* ------------------------------------------------ JavaScript numbers ----
IsFiniteNum(x) == x \notin {Infinity, NegInfinity, NaN}

\* Math.floor(p / q) in the place of Math.round
JsFloor(p, q) == p \div q

\* Math.round(p / q) for integers p and q > 0: floor(p/q + 0.5)
JsRound(p, q) == (2 * p + q) \div (2 * q)

\* a - b
JsMinus(a, b) ==
  IF a = NaN \/ b = NaN THEN NaN
  ELSE IF IsFiniteNum(a) /\ IsFiniteNum(b) THEN a - b
  ELSE IF IsFiniteNum(a) THEN (IF b = Infinity THEN NegInfinity ELSE Infinity)
  ELSE IF IsFiniteNum(b) THEN a
  ELSE IF a = b THEN NaN ELSE a

\* Math.min(a, b) and Math.max(a, b)
JsMin(a, b) ==
  IF a = NaN \/ b = NaN THEN NaN
  ELSE IF a = NegInfinity \/ b = NegInfinity THEN NegInfinity
  ELSE IF a = Infinity THEN b
  ELSE IF b = Infinity THEN a
  ELSE IF a < b THEN a ELSE b

JsMax(a, b) ==
  IF a = NaN \/ b = NaN THEN NaN
  ELSE IF a = Infinity \/ b = Infinity THEN Infinity
  ELSE IF a = NegInfinity THEN b
  ELSE IF b = NegInfinity THEN a
  ELSE IF a > b THEN a ELSE b

\* the clamp with its upper limit forgotten
Clamp100NoUpper(x) == JsMax(0, x)

\* Math.max(0, Math.min(100, x))
Clamp100(x) == JsMax(0, JsMin(100, x))

\* JSON.stringify writes a non-finite number as null
JsonNum(x) == IF IsFiniteNum(x) THEN x ELSE JsonNull

\* Math.round(100 - (fpsRange / avg) * 100), avg a finite number >= 0:
\* x/0 is NaN for x = 0, Infinity for x > 0, -Infinity for x < 0
RoundedStability(fpsRange, avg) ==
  IF fpsRange = NaN THEN NaN
  ELSE IF avg = 0 /\ fpsRange = 0 THEN NaN
  ELSE IF fpsRange = Infinity \/ (avg = 0 /\ fpsRange > 0) THEN NegInfinity
  ELSE IF fpsRange = NegInfinity \/ (avg = 0 /\ fpsRange < 0) THEN Infinity
  ELSE JsRound(100 * avg - 100 * fpsRange, avg)

\* Math.round(fpsScore - tempPenalty + stabilityBonus), the three terms given
\* as fractions over the common denominator den; the bonus may be Infinity
RoundedScore(fpsScoreN, tempPenaltyN, stabilityBonus, den) ==
  IF stabilityBonus = NaN THEN NaN
  ELSE IF stabilityBonus = Infinity THEN Infinity
  ELSE JsRound(fpsScoreN - tempPenaltyN + stabilityBonus * den, den)

\* ------------------------------------------------------------ state ----
VARIABLES
  now,                 \* Date.now()
  userAgentMobile,     \* navigator.userAgent matches the mobile pattern
  isMobile, scene, appMode, isTestRunning, currentLevel,
  testStartTime, lastFPSUpdate, frameCount, totalFrames, avgFPS,
  simulatedTemp, testResults, animationId, fallbackAnimationId, fpsChart,
  raf,                 \* callbacks scheduled with requestAnimationFrame
  gpuTestResults,      \* localStorage item 'gpuTestResults'
  dom,                 \* display state of the page elements the code writes
  levelBtn,            \* listeners installed on the .level-btn elements
  delegated,           \* document click listeners added by initEventListeners
  dispatch,            \* listeners still to run for the click being dispatched
  samples,             \* FPS samples emitted since the last start
  starts,              \* runs started so far
  savedLog,            \* every record written to the history, newest first
  webgl,               \* the browser hands out WebGL contexts
  missing,             \* page elements the document does not contain
  testObjects,         \* length of the testObjects array
  sceneChildren,       \* scene.children: the types of the children, in order
  threeJSConfig,       \* what the loader of the Three.js library reports
  wait                 \* the timers and the outcomes of a waitForThreeJS call

vars == <<now, userAgentMobile, isMobile, scene, appMode, isTestRunning,
          currentLevel, testStartTime, lastFPSUpdate, frameCount, totalFrames,
          avgFPS, simulatedTemp, testResults, animationId, fallbackAnimationId,
          fpsChart, raf, gpuTestResults, dom, levelBtn, delegated, dispatch,
          samples, starts, savedLog, webgl, missing, testObjects,
          sceneChildren, threeJSConfig, wait>>

\* the whole program state as one record, so that handlers compose
State ==
  [now |-> now, userAgentMobile |-> userAgentMobile, isMobile |-> isMobile,
   scene |-> scene, appMode |-> appMode, isTestRunning |-> isTestRunning,
   currentLevel |-> currentLevel, testStartTime |-> testStartTime,
   lastFPSUpdate |-> lastFPSUpdate, frameCount |-> frameCount,
   totalFrames |-> totalFrames, avgFPS |-> avgFPS,
   simulatedTemp |-> simulatedTemp, testResults |-> testResults,
   animationId |-> animationId, fallbackAnimationId |-> fallbackAnimationId,
   fpsChart |-> fpsChart, raf |-> raf, gpuTestResults |-> gpuTestResults,
   dom |-> dom, levelBtn |-> levelBtn, delegated |-> delegated,
   dispatch |-> dispatch, samples |-> samples, starts |-> starts,
   savedLog |-> savedLog, webgl |-> webgl, missing |-> missing,
   testObjects |-> testObjects, sceneChildren |-> sceneChildren,
   threeJSConfig |-> threeJSConfig, wait |-> wait]

Set(s) ==
  /\ now' = s.now
  /\ userAgentMobile' = s.userAgentMobile
  /\ isMobile' = s.isMobile
  /\ scene' = s.scene
  /\ appMode' = s.appMode
  /\ isTestRunning' = s.isTestRunning
  /\ currentLevel' = s.currentLevel
  /\ testStartTime' = s.testStartTime
  /\ lastFPSUpdate' = s.lastFPSUpdate
  /\ frameCount' = s.frameCount
  /\ totalFrames' = s.totalFrames
  /\ avgFPS' = s.avgFPS
  /\ simulatedTemp' = s.simulatedTemp
  /\ testResults' = s.testResults
  /\ animationId' = s.animationId
  /\ fallbackAnimationId' = s.fallbackAnimationId
  /\ fpsChart' = s.fpsChart
  /\ raf' = s.raf
  /\ gpuTestResults' = s.gpuTestResults
  /\ dom' = s.dom
  /\ levelBtn' = s.levelBtn
  /\ delegated' = s.delegated
  /\ dispatch' = s.dispatch
  /\ samples' = s.samples
  /\ starts' = s.starts
  /\ savedLog' = s.savedLog
  /\ webgl' = s.webgl
  /\ missing' = s.missing
  /\ testObjects' = s.testObjects
  /\ sceneChildren' = s.sceneChildren
  /\ threeJSConfig' = s.threeJSConfig
  /\ wait' = s.wait

\* no waitForThreeJS call is in progress: no interval and no timeout armed,
\* nothing polled, no outcome delivered
NoWait ==
  [called |-> FALSE, interval |-> FALSE, timeout |-> FALSE, polls |-> 0,
   callbacks |-> 0, errors |-> 0]

\* the page as the script finds it: the hero with the start button is shown
InitialDom ==
  [hero |-> "full", levelSelection |-> FALSE, testCanvas |-> FALSE,
   testMonitoring |-> FALSE, fallbackContainer |-> FALSE,
   testResults |-> FALSE, error |-> FALSE,
   completedLevel |-> "", resultMinFps |-> 0]

\* --------------------------------------------------- the frame pump ----
\* requestAnimationFrame returns a handle no pending callback and no stored
\* handle uses (browsers count upwards; the smallest free one is taken here)
UsedIds(s) == {c.id : c \in s.raf} \cup {s.animationId, s.fallbackAnimationId}

FreshId(s) ==
  CHOOSE i \in 1..(Cardinality(UsedIds(s)) + 1) :
    /\ i \notin UsedIds(s)
    /\ \A j \in 1..(i - 1) : j \in UsedIds(s)

requestAnimationFrame(s, fn) == s.raf \cup {[id |-> FreshId(s), fn |-> fn]}

cancelAnimationFrame(s, id) == {c \in s.raf : c.id # id}

\* ------------------------------------------------- scoring and store ----
Max(a, b) == IF a > b THEN a ELSE b
Min(a, b) == IF a < b THEN a ELSE b

\* Math.round(p / q) where q may be 0 (p, q >= 0)
JsRoundDiv(p, q) ==
  IF q = 0 THEN (IF p = 0 THEN NaN ELSE Infinity) ELSE JsRound(p, q)

calculateScore(s) ==
  LET levelConfig == testLevels[s.currentLevel]
      expectedFPS == IF s.isMobile THEN levelConfig.expectedFPS.mobile
                                   ELSE levelConfig.expectedFPS.desktop
      r == s.testResults
      den == expectedFPS * TempScale
      \* Math.min(100, (avgFPS / expectedFPS) * 60), over den
      fpsScoreN == Min(100 * expectedFPS, r.avgFPS * 60) * TempScale
      \* Math.max(0, (maxTemp - 75) * 2), over den
      tempPenaltyN == Max(0, (r.maxTemp - 75 * TempScale) * 2) * expectedFPS
      fpsRange == JsMinus(r.maxFPS, r.minFPS)
      stabilityBonus == JsMax(0, JsMinus(30, fpsRange))
      rawScore == RoundedScore(fpsScoreN, tempPenaltyN, stabilityBonus, den)
  IN [s EXCEPT !.testResults.score = Clamp100(rawScore),
               !.testResults.stability =
                   Clamp100(RoundedStability(fpsRange, r.avgFPS))]

\* the fpsScore of stopFallbackTest, Math.min(100, (avgFPS / expectedFPS) * 70),
\* as a fraction over expectedFPS
fallbackFpsScoreN(avg, expectedFPS) == Min(100 * expectedFPS, avg * 70)

\* a scorer whose result builds on the score it finds
fallbackScoreOnPrevious(s) ==
  LET r == s.testResults
      fpsRange == JsMinus(r.maxFPS, r.minFPS)
      stabilityBonus == JsMax(0, JsMinus(20, fpsRange))
      rawScore == RoundedScore(fallbackFpsScoreN(r.avgFPS, 50) + r.score * 50,
                               0, stabilityBonus, 50)
  IN [s EXCEPT !.testResults.score = Clamp100(rawScore),
               !.testResults.stability =
                   Clamp100(RoundedStability(fpsRange, r.avgFPS))]

\* the scoring statements of stopFallbackTest
fallbackScore(s) ==
  LET r == s.testResults
      expectedFPS == 50
      fpsScoreN == fallbackFpsScoreN(r.avgFPS, expectedFPS)
      fpsRange == JsMinus(r.maxFPS, r.minFPS)
      stabilityBonus == JsMax(0, JsMinus(20, fpsRange))
      rawScore == RoundedScore(fpsScoreN, 0, stabilityBonus, expectedFPS)
  IN [s EXCEPT !.testResults.score = Clamp100(rawScore),
               !.testResults.stability =
                   Clamp100(RoundedStability(fpsRange, r.avgFPS))]

\* the stored item is a string that is not the JSON text of an array:
\* JSON.parse throws on it, or returns a value that has no unshift
ParseThrows(item) == item.present /\ ~item.valid

\* JSON.parse(localStorage.getItem('gpuTestResults') || '[]')
ParseStored(item) == IF item.present THEN item.value ELSE <<>>

\* the truncation keeping one entry too many
Slice11(q) == SubSeq(q, 1, Min(Len(q), HistoryLimit + 1))

\* savedResults.slice(0, 10)
Slice10(q) == SubSeq(q, 1, Min(Len(q), HistoryLimit))

\* the record as JSON.stringify writes it (levelName, date and time, which
\* no operation reads back, are left out)
ResultJson(s) ==
  [level |-> s.currentLevel,
   score |-> JsonNum(s.testResults.score),
   avgFPS |-> JsonNum(s.testResults.avgFPS),
   minFPS |-> JsonNum(s.testResults.minFPS),
   maxFPS |-> JsonNum(s.testResults.maxFPS),
   maxTemp |-> JsRound(s.testResults.maxTemp, TempScale),
   stability |-> JsonNum(s.testResults.stability),
   objects |-> testLevels[s.currentLevel].objects,
   deviceType |-> IF s.isMobile THEN "Mobile" ELSE "Desktop"]

saveTestResults(s) ==
  LET savedResults == ParseStored(s.gpuTestResults)
      unshifted == <<ResultJson(s)>> \o savedResults
  IN [s EXCEPT !.gpuTestResults = [present |-> TRUE, valid |-> TRUE,
                                     value |-> Slice10(unshifted)],
               !.savedLog = <<ResultJson(s)>> \o s.savedLog]

\* the elements the results page writes to without testing that they exist:
\* score-rating, previous-tests (in loadPreviousResults) and .test-results
ResultsTargets == {"scoreRating", "previousTests", "testResults"}

\* the result fields are written under null checks; the first write to a
\* missing element of ResultsTargets throws, before the page is shown
showTestResults(s) ==
  LET s1 == [s EXCEPT !.dom.completedLevel = "3d",
                      !.dom.resultMinFps = IF s.testResults.minFPS = Infinity
                                           THEN 0 ELSE s.testResults.minFPS]
  IN IF ResultsTargets \cap s.missing # {} THEN s1
     ELSE [s1 EXCEPT !.dom.testResults = TRUE]

show2DTestResults(s) ==
  LET s1 == [s EXCEPT !.dom.completedLevel = "2d",
                      !.dom.resultMinFps = IF s.testResults.minFPS = Infinity
                                           THEN 0 ELSE s.testResults.minFPS]
  IN IF ResultsTargets \cap s.missing # {} THEN s1
     ELSE [s1 EXCEPT !.dom.testResults = TRUE]

\* ------------------------------------------------------ the scene ----
\* The cubes one createStressTestObjects adds are adjacent children that are
\* added and removed together: they are one entry "Mesh" of sceneChildren
\* (no level has an empty batch); the cubes of an earlier batch that
\* testObjects no longer refers to are an entry "OrphanMesh".
LightTypes == {"AmbientLight", "DirectionalLight"}

RemoveAt(q, k) == [i \in 1..(Len(q) - 1) |-> IF i < k THEN q[i] ELSE q[i + 1]]

\* scene.children.forEach(child => { if (light) scene.remove(child) }):
\* forEach visits the indices below the initial length that the array still
\* has, while scene.remove splices the array it is iterating over
RECURSIVE ForEachRemoveLights(_, _, _)
ForEachRemoveLights(children, k, len) ==
  IF k > len \/ k > Len(children) THEN children
  ELSE IF children[k] \in LightTypes
       THEN ForEachRemoveLights(RemoveAt(children, k), k + 1, len)
       ELSE ForEachRemoveLights(children, k + 1, len)

\* testObjects.forEach(obj => scene.remove(obj)); testObjects = []; and the
\* loop over the lights
clearSceneObjects(s) ==
  LET kept == SelectSeq(s.sceneChildren, LAMBDA c : c # "Mesh")
  IN [s EXCEPT !.testObjects = 0,
               !.sceneChildren = ForEachRemoveLights(kept, 1, Len(kept))]

createStressTestObjects(s) ==
  IF ~s.isTestRunning \/ ~s.scene THEN s
  ELSE
    LET baseObjectCount == testLevels[s.currentLevel].objects
        objectCount == IF s.isMobile THEN baseObjectCount \div 2
                                     ELSE baseObjectCount
        orphaned == [i \in 1..Len(s.sceneChildren) |->
                       IF s.sceneChildren[i] = "Mesh" THEN "OrphanMesh"
                       ELSE s.sceneChildren[i]]
    IN [s EXCEPT !.testObjects = objectCount,
                 !.sceneChildren =
                     orphaned \o <<"Mesh", "AmbientLight", "DirectionalLight">>]

\* ------------------------------------------------------- the 3D run ----
stopGPUTest(s) ==
  IF ~s.isTestRunning THEN s
  ELSE
    LET s1 == [s EXCEPT !.isTestRunning = FALSE,
                        !.raf = IF s.animationId # 0
                                THEN cancelAnimationFrame(s, s.animationId)
                                ELSE s.raf,
                        !.animationId = 0]
        s2 == saveTestResults(calculateScore(s1))
        s3 == [clearSceneObjects(s2) EXCEPT !.fpsChart = FALSE,
                                            !.dom.testCanvas = FALSE,
                                            !.dom.testMonitoring = FALSE]
    \* the exception of saveTestResults is caught nowhere: it ends the handler
    IN IF ParseThrows(s1.gpuTestResults) THEN calculateScore(s1)
       ELSE showTestResults(s3)

\* the temperature formula without its upper limit
simulatedTempUnclamped(elapsedMs, levelMultiplier10, noise) ==
  BaseTemp * TempScale + elapsedMs * levelMultiplier10 + noise

\* Math.min(90, 65 + elapsedSeconds * 0.5 * levelMultiplier + noise), in
\* units of 1/TempScale degree
simulatedTempAt(elapsedMs, levelMultiplier10, noise) ==
  Min(MaxTemp * TempScale,
      BaseTemp * TempScale + elapsedMs * levelMultiplier10 + noise)

\* a sample that leaves the frames of its window in the count
animateSampleKeepCount(s, noise) ==
  LET fps == JsRound(s.frameCount * 1000, s.now - s.lastFPSUpdate)
      elapsedMs == s.now - s.testStartTime
      avg == JsRoundDiv(s.totalFrames * 1000, elapsedMs)
      levelMultiplier10 == testLevels[s.currentLevel].multiplier10
      temp == simulatedTempAt(elapsedMs, levelMultiplier10, noise)
  IN [s EXCEPT !.avgFPS = avg,
               !.testResults.minFPS = JsMin(s.testResults.minFPS, fps),
               !.testResults.maxFPS = JsMax(s.testResults.maxFPS, fps),
               !.testResults.avgFPS = avg,
               !.simulatedTemp = temp,
               !.testResults.maxTemp = Max(s.testResults.maxTemp, temp),
               !.samples = s.samples + 1,
               !.lastFPSUpdate = s.now]

\* one emitted sample of animate: fps, average, extremes and temperature
animateSample(s, noise) ==
  LET fps == JsRound(s.frameCount * 1000, s.now - s.lastFPSUpdate)
      elapsedMs == s.now - s.testStartTime
      avg == JsRoundDiv(s.totalFrames * 1000, elapsedMs)
      levelMultiplier10 == testLevels[s.currentLevel].multiplier10
      temp == simulatedTempAt(elapsedMs, levelMultiplier10, noise)
  IN [s EXCEPT !.avgFPS = avg,
               !.testResults.minFPS = JsMin(s.testResults.minFPS, fps),
               !.testResults.maxFPS = JsMax(s.testResults.maxFPS, fps),
               !.testResults.avgFPS = avg,
               !.simulatedTemp = temp,
               !.testResults.maxTemp = Max(s.testResults.maxTemp, temp),
               !.samples = s.samples + 1,
               !.frameCount = 0,
               !.lastFPSUpdate = s.now]

animate(s, noise) ==
  IF ~s.isTestRunning THEN s
  ELSE
    LET s1 == [s EXCEPT !.animationId = FreshId(s),
                        !.raf = requestAnimationFrame(s, "animate")]
        elapsed == s1.now - s1.testStartTime
        remaining == Max(0, testDuration - (elapsed \div 1000))
    IN IF remaining = 0 THEN stopGPUTest(s1)
       ELSE
         LET s2 == [s1 EXCEPT !.frameCount = s1.frameCount + 1,
                              !.totalFrames = s1.totalFrames + 1]
         IN IF s2.now - s2.lastFPSUpdate >= 1000
            THEN animateSample(s2, noise) ELSE s2

showError(s) == [s EXCEPT !.dom.error = TRUE]

\* skew: what the clock advanced between the two reads of Date.now()
\* startGPUTest without the test of the scene
startGPUTestNoSceneCheck(s, level, skew) ==
  IF s.isTestRunning THEN s
  ELSE IF "testCanvas" \in s.missing THEN showError(s)
  ELSE
    LET s1 == [s EXCEPT !.currentLevel = level,
                        !.isTestRunning = TRUE,
                        !.testStartTime = s.now,
                        !.frameCount = 0,
                        !.totalFrames = 0,
                        !.now = s.now + skew,
                        !.lastFPSUpdate = s.now + skew,
                        !.simulatedTemp = BaseTemp * TempScale,
                        !.avgFPS = 0,
                        !.testResults = InitialResults,
                        !.samples = 0,
                        !.starts = s.starts + 1,
                        !.dom.testCanvas = TRUE,
                        !.dom.testMonitoring = "testMonitoring" \notin s.missing,
                        !.dom.levelSelection = FALSE]
    IN IF ~s.isMobile /\ "fpsChart" \in s.missing THEN s1
       ELSE animate(createStressTestObjects([s1 EXCEPT !.fpsChart = ~s.isMobile]), 0)

startGPUTest(s, level, skew) ==
  IF s.isTestRunning THEN s
  ELSE IF "testCanvas" \in s.missing THEN showError(s)
  ELSE IF ~s.scene THEN showError(s)
  ELSE
    LET s1 == [s EXCEPT !.currentLevel = level,
                        !.isTestRunning = TRUE,
                        !.testStartTime = s.now,
                        !.frameCount = 0,
                        !.totalFrames = 0,
                        !.now = s.now + skew,
                        !.lastFPSUpdate = s.now + skew,
                        !.simulatedTemp = BaseTemp * TempScale,
                        !.avgFPS = 0,
                        !.testResults = InitialResults,
                        !.samples = 0,
                        !.starts = s.starts + 1,
                        !.dom.testCanvas = TRUE,
                        !.dom.testMonitoring = "testMonitoring" \notin s.missing,
                        !.dom.levelSelection = FALSE]
    \* initFPSChart, on desktop, takes the context of the fps-chart canvas
    \* without testing that it exists: its exception ends startGPUTest
    IN IF ~s.isMobile /\ "fpsChart" \in s.missing THEN s1
       ELSE animate(createStressTestObjects([s1 EXCEPT !.fpsChart = ~s.isMobile]), 0)

\* ------------------------------------------------------- the 2D run ----
stopFallbackTest(s) ==
  LET s1 == [s EXCEPT !.isTestRunning = FALSE,
                      !.raf = IF s.fallbackAnimationId # 0
                              THEN cancelAnimationFrame(s, s.fallbackAnimationId)
                              ELSE s.raf,
                      !.fallbackAnimationId = 0]
      s2 == saveTestResults(fallbackScore(s1))
      s3 == [s2 EXCEPT !.dom.fallbackContainer = FALSE]
  \* the exception of saveTestResults is caught nowhere: it ends the handler
  IN IF ParseThrows(s1.gpuTestResults) THEN fallbackScore(s1)
     ELSE show2DTestResults(s3)

\* a sample that does not restart the window (lastFPSUpdate left alone)
fallbackSampleSameWindow(s) ==
  LET fps == JsRound(s.frameCount * 1000, s.now - s.lastFPSUpdate)
      elapsed == s.now - s.testStartTime
  IN [s EXCEPT !.testResults.minFPS = JsMin(s.testResults.minFPS, fps),
               !.testResults.maxFPS = JsMax(s.testResults.maxFPS, fps),
               !.testResults.avgFPS = JsRoundDiv(s.totalFrames * 1000, elapsed),
               !.samples = s.samples + 1,
               !.frameCount = 0]

\* one emitted sample of updateFallbackTest
fallbackSample(s) ==
  LET fps == JsRound(s.frameCount * 1000, s.now - s.lastFPSUpdate)
      elapsed == s.now - s.testStartTime
  IN [s EXCEPT !.testResults.minFPS = JsMin(s.testResults.minFPS, fps),
               !.testResults.maxFPS = JsMax(s.testResults.maxFPS, fps),
               !.testResults.avgFPS = JsRoundDiv(s.totalFrames * 1000, elapsed),
               !.samples = s.samples + 1,
               !.frameCount = 0,
               !.lastFPSUpdate = s.now]

\* the callback with the end-of-run test lost: it always reschedules itself
updateFallbackTestForever(s) ==
  IF ~s.isTestRunning THEN s
  ELSE
    LET s1 == [s EXCEPT !.frameCount = s.frameCount + 1,
                        !.totalFrames = s.totalFrames + 1]
        s2 == IF s1.now - s1.lastFPSUpdate >= 1000 THEN fallbackSample(s1) ELSE s1
    IN [s2 EXCEPT !.fallbackAnimationId = FreshId(s2),
                  !.raf = requestAnimationFrame(s2, "updateFallbackTest")]

updateFallbackTest(s) ==
  IF ~s.isTestRunning THEN s
  ELSE
    LET elapsed == s.now - s.testStartTime
        remaining == Max(0, testDuration - (elapsed \div 1000))
        s1 == [s EXCEPT !.frameCount = s.frameCount + 1,
                        !.totalFrames = s.totalFrames + 1]
        s2 == IF s1.now - s1.lastFPSUpdate >= 1000 THEN fallbackSample(s1) ELSE s1
    IN IF remaining > 0
       THEN [s2 EXCEPT !.fallbackAnimationId = FreshId(s2),
                       !.raf = requestAnimationFrame(s2, "updateFallbackTest")]
       ELSE stopFallbackTest(s2)

\* a start that leaves the window start of the previous run in place
startFallbackTestStaleWindow(s, level, skew) ==
  LET s1 == [s EXCEPT !.currentLevel = level,
                      !.isTestRunning = TRUE,
                      !.testStartTime = s.now,
                      !.frameCount = 0,
                      !.totalFrames = 0,
                      !.now = s.now + skew,
                      !.testResults = InitialResults,
                      !.samples = 0,
                      !.starts = s.starts + 1,
                      !.dom.levelSelection = FALSE,
                      !.dom.fallbackContainer = TRUE]
  IN [s1 EXCEPT !.fallbackAnimationId = FreshId(s1),
                !.raf = requestAnimationFrame(s1, "updateFallbackTest")]

\* startFallbackTest with show2DTestInterface and start2DAnimation
startFallbackTest(s, level, skew) ==
  LET s1 == [s EXCEPT !.currentLevel = level,
                      !.isTestRunning = TRUE,
                      !.testStartTime = s.now,
                      !.frameCount = 0,
                      !.totalFrames = 0,
                      !.now = s.now + skew,
                      !.lastFPSUpdate = s.now + skew,
                      !.testResults = InitialResults,
                      !.samples = 0,
                      !.starts = s.starts + 1,
                      !.dom.levelSelection = FALSE,
                      !.dom.fallbackContainer = TRUE]
  IN [s1 EXCEPT !.fallbackAnimationId = FreshId(s1),
                !.raf = requestAnimationFrame(s1, "updateFallbackTest")]

\* ------------------------------------------------------- navigation ----
showLevelSelection(s) ==
  [s EXCEPT !.dom.hero = "levelOnly",
            !.dom.levelSelection = TRUE,
            !.levelBtn.onclick = "direct",
            !.dom.testResults = FALSE,
            !.dom.testMonitoring = FALSE]

showHomePage(s) ==
  LET s1 == [s EXCEPT !.isTestRunning = FALSE,
                      !.raf = IF s.animationId # 0
                              THEN cancelAnimationFrame(s, s.animationId)
                              ELSE s.raf,
                      !.animationId = 0]
      s2 == [s1 EXCEPT !.raf = IF s1.fallbackAnimationId # 0
                               THEN cancelAnimationFrame(s1, s1.fallbackAnimationId)
                               ELSE s1.raf,
                       !.fallbackAnimationId = 0]
      s3 == IF s2.scene /\ s2.testObjects > 0 THEN clearSceneObjects(s2) ELSE s2
  IN [s3 EXCEPT !.frameCount = 0,
                !.totalFrames = 0,
                !.testStartTime = 0,
                !.lastFPSUpdate = 0,
                !.avgFPS = 0,
                !.simulatedTemp = BaseTemp * TempScale,
                !.testResults = InitialResults,
                !.samples = 0,
                !.fpsChart = FALSE,
                !.dom.testCanvas = FALSE,
                !.dom.fallbackContainer = FALSE,
                !.dom.hero = "full",
                !.dom.levelSelection = FALSE,
                !.dom.testResults = FALSE,
                !.dom.testMonitoring = FALSE]

handleLevelButtonClick(s, level, skew) ==
  IF s.isTestRunning THEN s
  ELSE
    LET s1 == IF s.appMode = "loading"
              THEN [s EXCEPT !.appMode = IF s.scene THEN "3d" ELSE "2d"]
              ELSE s
    IN IF s1.appMode = "3d" THEN startGPUTest(s1, level, skew)
       ELSE IF s1.appMode = "2d" THEN startFallbackTest(s1, level, skew)
       ELSE startFallbackTest([s1 EXCEPT !.appMode = "2d"], level, skew)

handleStopTest(s) ==
  IF s.appMode = "3d" THEN stopGPUTest(s)
  ELSE IF s.appMode = "2d" THEN stopFallbackTest(s)
  ELSE s

\* detectDevice
detectDevice(s) == [s EXCEPT !.isMobile = s.userAgentMobile]

\* initEventListeners: one more delegated click listener on the document
initEventListeners(s) == [s EXCEPT !.delegated = s.delegated + 1]

\* init3DMode when initThreeJS succeeds
init3DMode(s) ==
  initEventListeners([detectDevice(s) EXCEPT !.scene = TRUE, !.appMode = "3d"])

init2DMode(s) ==
  initEventListeners([detectDevice(s) EXCEPT !.appMode = "2d"])

\* the listeners addEmergencyLevelButtonHandlers puts on a level button
emergencyOnclick(s, level, skew) ==
  LET s1 == [s EXCEPT !.currentLevel = level, !.isTestRunning = TRUE]
  IN IF s.scene THEN startGPUTest(s1, level, skew)
     ELSE startFallbackTest(s1, level, skew)

backupListener(s, level, skew) ==
  IF s.scene THEN startGPUTest(s, level, skew)
  ELSE startFallbackTest(s, level, skew)

addEmergencyLevelButtonHandlers(s) ==
  [s EXCEPT !.levelBtn = [onclick |-> "emergency", backup |-> s.levelBtn.backup + 1]]

\* ------------------------------------------- waiting for Three.js ----
\* the callback initializeApplication passes to waitForThreeJS, called with
\* true: initThreeJS succeeds when it finds its canvas
initializeApplicationCallback(s) ==
  IF ~s.webgl THEN showError(s)
  ELSE IF "testCanvas" \notin s.missing THEN init3DMode(s)
  ELSE init2DMode(showError(detectDevice(s)))

\* showThreeJSError fills and shows the error container of showError
showThreeJSError(s) == showError(s)

\* checkThreeJS: clearInterval and clearTimeout on the handles the call holds
\* at that moment, then the outcome
checkThreeJS(s) ==
  IF s.threeJSConfig = "loaded"
  THEN initializeApplicationCallback(
         [s EXCEPT !.wait.interval = FALSE, !.wait.timeout = FALSE,
                   !.wait.callbacks = s.wait.callbacks + 1])
  ELSE IF s.threeJSConfig = "error"
  THEN showThreeJSError(
         [s EXCEPT !.wait.interval = FALSE, !.wait.timeout = FALSE,
                   !.wait.errors = s.wait.errors + 1])
  ELSE s

\* waitForThreeJS: the compatibility test, the first check, and then the
\* interval and the timeout, created whatever the first check found
waitForThreeJS(s) ==
  IF ~s.webgl THEN showError([s EXCEPT !.wait.called = TRUE])
  ELSE [checkThreeJS([s EXCEPT !.wait.called = TRUE])
          EXCEPT !.wait.interval = TRUE, !.wait.timeout = TRUE]

\* the timeout callback of waitForThreeJS
waitTimeout(s) ==
  showThreeJSError([s EXCEPT !.wait.interval = FALSE, !.wait.timeout = FALSE,
                             !.wait.errors = s.wait.errors + 1])

\* -------------------------------------------------- click dispatch ----
Repeat(n, x) == [i \in 1..n |-> x]

\* the listeners a click on a level button reaches, in dispatch order: the
\* capturing listeners on the button, then its onclick handler; each of them
\* stops propagation, so the document listeners run only when there is none
LevelClickListeners(s, level) ==
  LET onTarget ==
        Repeat(s.levelBtn.backup, [listener |-> "backup", level |-> level])
        \o (IF s.levelBtn.onclick = "none" THEN <<>>
            ELSE <<[listener |-> s.levelBtn.onclick, level |-> level]>>)
  IN IF onTarget # <<>> THEN onTarget
     ELSE Repeat(s.delegated, [listener |-> "delegatedLevel", level |-> level])


\* ------------------------------------------------------------ Init ----
Init ==
  /\ now = Epoch
  /\ userAgentMobile \in BOOLEAN
  /\ isMobile = FALSE
  /\ scene = FALSE
  /\ appMode = "loading"
  /\ isTestRunning = FALSE
  /\ currentLevel = "medium"
  /\ testStartTime = 0
  /\ lastFPSUpdate = 0
  /\ frameCount = 0
  /\ totalFrames = 0
  /\ avgFPS = 0
  /\ simulatedTemp = BaseTemp * TempScale
  /\ testResults = InitialResults
  /\ animationId = 0
  /\ fallbackAnimationId = 0
  /\ fpsChart = FALSE
  /\ raf = {}
  /\ gpuTestResults = [present |-> FALSE, valid |-> TRUE, value |-> <<>>]
  /\ dom = InitialDom
  /\ levelBtn = [onclick |-> "none", backup |-> 0]
  /\ delegated = 0
  /\ dispatch = <<>>
  /\ samples = 0
  /\ starts = 0
  /\ savedLog = <<>>
  /\ webgl \in BOOLEAN
  /\ missing = {}
  /\ testObjects = 0
  /\ sceneChildren = <<>>
  /\ threeJSConfig = "loaded"
  /\ wait = NoWait

\* --------------------------------------------------------- actions ----
\* the clock advances while no script runs; only the time that passes during
\* a run is modelled, since no operation reads the clock outside a run
Tick ==
  /\ dispatch = <<>>
  /\ isTestRunning
  /\ starts <= TimedRuns
  /\ \E dt \in ClockSteps \cup {LongPause} :
       /\ IF dt = LongPause THEN now - testStartTime < testDuration * 1000
                            ELSE now - testStartTime < FineWindow
       /\ now' = now + dt
  /\ UNCHANGED <<userAgentMobile, isMobile, scene, appMode, isTestRunning,
                 currentLevel, testStartTime, lastFPSUpdate, frameCount,
                 totalFrames, avgFPS, simulatedTemp, testResults, animationId,
                 fallbackAnimationId, fpsChart, raf, gpuTestResults, dom,
                 levelBtn, delegated, dispatch, samples, starts, savedLog,
                 webgl, missing, testObjects, sceneChildren, threeJSConfig,
                 wait>>

\* a run is given MaxFrames frames before its 30 seconds have passed; the
\* callbacks after that, which end the run, are always delivered
FrameBudget ==
  isTestRunning =>
    \/ totalFrames < MaxFrames
    \/ now - testStartTime >= testDuration * 1000

\* the frame pump invokes a scheduled animate
AnimateFrame ==
  /\ dispatch = <<>>
  /\ FrameBudget
  /\ \E cb \in raf : \E noise \in NoiseSet :
       /\ cb.fn = "animate"
       /\ Set(animate([State EXCEPT !.raf = raf \ {cb}], noise))

\* the frame pump invokes a scheduled updateFallbackTest
FallbackFrame ==
  /\ dispatch = <<>>
  /\ FrameBudget
  /\ \E cb \in raf :
       /\ cb.fn = "updateFallbackTest"
       /\ Set(updateFallbackTest([State EXCEPT !.raf = raf \ {cb}]))

\* initializeApplication completes in 3D mode
Init3D ==
  /\ dispatch = <<>>
  /\ delegated < MaxInits
  /\ webgl
  /\ "testCanvas" \notin missing
  /\ scene \/ delegated = 0
  /\ Set(init3DMode(State))

\* initializeApplication completes in the 2D fallback mode: WebGL was
\* detected, initThreeJS failed (no canvas element, no context on it, or the
\* renderer threw), showed its error and made init3DMode return false
Init2D ==
  /\ dispatch = <<>>
  /\ delegated < MaxInits
  /\ webgl
  /\ ~scene
  /\ Set(init2DMode(showError(detectDevice(State))))

\* initializeApplication in a browser without WebGL: waitForThreeJS (or the
\* callback, after detectWebGLSupport) shows the error and returns (a second
\* call only shows the same error again)
InitNoWebGL ==
  /\ dispatch = <<>>
  /\ ~webgl
  /\ ~dom.error
  /\ Set(showError(State))

\* a timer installs the emergency handlers on the level buttons; the firings
\* explored are those between runs (a firing changes only the listeners of
\* the level buttons, which are hidden and read by no step during a run)
EmergencyTimer ==
  /\ dispatch = <<>>
  /\ ~isTestRunning
  /\ levelBtn.backup < MaxBackup
  /\ Set(addEmergencyLevelButtonHandlers(State))

\* click on the start button: its capturing listener shows the level selection
\* and stops every other listener
ClickStartButton ==
  /\ dispatch = <<>>
  /\ dom.hero = "full"
  /\ Set([State EXCEPT !.dom.hero = "none",
                       !.dom.levelSelection = TRUE,
                       !.dom.testResults = FALSE])

ClickLevelButton ==
  /\ dispatch = <<>>
  /\ dom.levelSelection
  /\ starts < MaxStarts
  /\ \E level \in ClickLevels :
       Set([State EXCEPT !.dispatch = LevelClickListeners(State, level)])

ClickStopButton ==
  /\ dispatch = <<>>
  /\ dom.testMonitoring \/ dom.fallbackContainer
  /\ Set([State EXCEPT !.dispatch = Repeat(delegated, [listener |-> "stop", level |-> ""])])

ClickHomeButton ==
  /\ dispatch = <<>>
  /\ delegated > 0
  /\ Set([State EXCEPT !.dispatch = Repeat(delegated, [listener |-> "home", level |-> ""])])

ClickTestAgain ==
  /\ dispatch = <<>>
  /\ dom.testResults
  /\ starts < MaxStarts
  /\ Set([State EXCEPT !.dispatch = Repeat(delegated, [listener |-> "testAgain", level |-> ""])])

ClickNewLevel ==
  /\ dispatch = <<>>
  /\ dom.testResults
  /\ Set([State EXCEPT !.dispatch = Repeat(delegated, [listener |-> "newLevel", level |-> ""])])

\* the next listener of the click being dispatched runs
Rest == [State EXCEPT !.dispatch = Tail(dispatch)]

RunBackupListener ==
  /\ dispatch # <<>>
  /\ Head(dispatch).listener = "backup"
  /\ \E skew \in Skews : Set(backupListener(Rest, Head(dispatch).level, skew))

RunEmergencyOnclick ==
  /\ dispatch # <<>>
  /\ Head(dispatch).listener = "emergency"
  /\ \E skew \in Skews : Set(emergencyOnclick(Rest, Head(dispatch).level, skew))

RunDirectOnclick ==
  /\ dispatch # <<>>
  /\ Head(dispatch).listener = "direct"
  /\ \E skew \in Skews : Set(handleLevelButtonClick(Rest, Head(dispatch).level, skew))

RunDelegatedLevel ==
  /\ dispatch # <<>>
  /\ Head(dispatch).listener = "delegatedLevel"
  /\ \E skew \in Skews : Set(handleLevelButtonClick(Rest, Head(dispatch).level, skew))

RunDelegatedStop ==
  /\ dispatch # <<>>
  /\ Head(dispatch).listener = "stop"
  /\ Set(handleStopTest(Rest))

RunDelegatedHome ==
  /\ dispatch # <<>>
  /\ Head(dispatch).listener = "home"
  /\ Set(showHomePage(Rest))

RunDelegatedTestAgain ==
  /\ dispatch # <<>>
  /\ Head(dispatch).listener = "testAgain"
  /\ \E skew \in Skews : Set(handleLevelButtonClick(Rest, currentLevel, skew))

RunDelegatedNewLevel ==
  /\ dispatch # <<>>
  /\ Head(dispatch).listener = "newLevel"
  /\ Set(showLevelSelection(Rest))

Next ==
  \/ Tick
  \/ AnimateFrame
  \/ FallbackFrame
  \/ Init3D
  \/ Init2D
  \/ InitNoWebGL
  \/ EmergencyTimer
  \/ ClickStartButton
  \/ ClickLevelButton
  \/ ClickStopButton
  \/ ClickHomeButton
  \/ ClickTestAgain
  \/ ClickNewLevel
  \/ RunBackupListener
  \/ RunEmergencyOnclick
  \/ RunDirectOnclick
  \/ RunDelegatedLevel
  \/ RunDelegatedStop
  \/ RunDelegatedHome
  \/ RunDelegatedTestAgain
  \/ RunDelegatedNewLevel

Spec == Init /\ [][Next]_vars

\* One run from page load to the results page, on a page whose level buttons
\* carry no emergency handlers (the state before the first timer of
\* initializeEmergencyHandlers fires): the clicks are handled by the document
\* listeners of initEventListeners, and the run ends by the stop button or
\* when its 30 seconds have passed.
RunNext ==
  \/ Tick
  \/ AnimateFrame
  \/ FallbackFrame
  \/ Init3D
  \/ Init2D
  \/ InitNoWebGL
  \/ ClickStartButton
  \/ ClickLevelButton
  \/ ClickStopButton
  \/ RunDelegatedLevel
  \/ RunDelegatedStop

SpecRun == Init /\ [][RunNext]_vars

\* a scheduled callback can be invoked: what ENABLED <<FrameStep>>_vars is
FramePending == dispatch = <<>> /\ FrameBudget /\ raf # {}

\* a scheduled callback is invoked: no other step taken while no click is
\* being dispatched changes the set of scheduled callbacks
FrameTaken == dispatch = <<>> /\ raf' # raf

\* The same run when the clock keeps advancing, the frame pump keeps
\* invoking the scheduled callbacks and the listeners of a click all run:
\* weak fairness of the clock, of the frame steps and of the listener steps,
\* the last two written out with their enabling conditions (a listener step
\* is enabled exactly while dispatch is not empty, and shortens it).
SpecRunFair ==
  /\ SpecRun
  /\ WF_vars(Tick)
  /\ ([]<>(~FramePending) \/ []<><<FrameTaken>>_vars)
  /\ []<>(dispatch = <<>>)

\* The page loaded over a history item that is not the JSON text of an array
\* (written by another script of the origin, or cut short): Init with that
\* item in place of the absent one
MalformedInit ==
  /\ now = Epoch
  /\ userAgentMobile \in BOOLEAN
  /\ isMobile = FALSE
  /\ scene = FALSE
  /\ appMode = "loading"
  /\ isTestRunning = FALSE
  /\ currentLevel = "medium"
  /\ testStartTime = 0
  /\ lastFPSUpdate = 0
  /\ frameCount = 0
  /\ totalFrames = 0
  /\ avgFPS = 0
  /\ simulatedTemp = BaseTemp * TempScale
  /\ testResults = InitialResults
  /\ animationId = 0
  /\ fallbackAnimationId = 0
  /\ fpsChart = FALSE
  /\ raf = {}
  /\ gpuTestResults = [present |-> TRUE, valid |-> FALSE, value |-> <<>>]
  /\ dom = InitialDom
  /\ levelBtn = [onclick |-> "none", backup |-> 0]
  /\ delegated = 0
  /\ dispatch = <<>>
  /\ samples = 0
  /\ starts = 0
  /\ savedLog = <<>>
  /\ webgl \in BOOLEAN
  /\ missing = {}
  /\ testObjects = 0
  /\ sceneChildren = <<>>
  /\ threeJSConfig = "loaded"
  /\ wait = NoWait

\* one run, as in SpecRun, over the malformed history item
SpecMalformed == MalformedInit /\ [][RunNext]_vars

\* the elements of the page whose absence the handlers of a run can meet
PageElements == {"testCanvas", "testMonitoring", "fpsChart"} \cup ResultsTargets

\* The page loaded from a document that lacks some of these elements
MissingInit ==
  /\ now = Epoch
  /\ userAgentMobile \in BOOLEAN
  /\ isMobile = FALSE
  /\ scene = FALSE
  /\ appMode = "loading"
  /\ isTestRunning = FALSE
  /\ currentLevel = "medium"
  /\ testStartTime = 0
  /\ lastFPSUpdate = 0
  /\ frameCount = 0
  /\ totalFrames = 0
  /\ avgFPS = 0
  /\ simulatedTemp = BaseTemp * TempScale
  /\ testResults = InitialResults
  /\ animationId = 0
  /\ fallbackAnimationId = 0
  /\ fpsChart = FALSE
  /\ raf = {}
  /\ gpuTestResults = [present |-> FALSE, valid |-> TRUE, value |-> <<>>]
  /\ dom = InitialDom
  /\ levelBtn = [onclick |-> "none", backup |-> 0]
  /\ delegated = 0
  /\ dispatch = <<>>
  /\ samples = 0
  /\ starts = 0
  /\ savedLog = <<>>
  /\ webgl \in BOOLEAN
  /\ missing \in SUBSET PageElements
  /\ testObjects = 0
  /\ sceneChildren = <<>>
  /\ threeJSConfig = "loaded"
  /\ wait = NoWait

\* one run, as in SpecRun, on such a document
SpecMissing == MissingInit /\ [][RunNext]_vars

\* ------------------------------------ waitForThreeJS on its own ----
\* One call of waitForThreeJS, made by initializeApplication, with the
\* library loaded, failed or still loading at the time of the call.
WaitInit ==
  /\ now = Epoch
  /\ userAgentMobile \in BOOLEAN
  /\ isMobile = FALSE
  /\ scene = FALSE
  /\ appMode = "loading"
  /\ isTestRunning = FALSE
  /\ currentLevel = "medium"
  /\ testStartTime = 0
  /\ lastFPSUpdate = 0
  /\ frameCount = 0
  /\ totalFrames = 0
  /\ avgFPS = 0
  /\ simulatedTemp = BaseTemp * TempScale
  /\ testResults = InitialResults
  /\ animationId = 0
  /\ fallbackAnimationId = 0
  /\ fpsChart = FALSE
  /\ raf = {}
  /\ gpuTestResults = [present |-> FALSE, valid |-> TRUE, value |-> <<>>]
  /\ dom = InitialDom
  /\ levelBtn = [onclick |-> "none", backup |-> 0]
  /\ delegated = 0
  /\ dispatch = <<>>
  /\ samples = 0
  /\ starts = 0
  /\ savedLog = <<>>
  /\ webgl \in BOOLEAN
  /\ missing \in {{}, {"testCanvas"}}
  /\ testObjects = 0
  /\ sceneChildren = <<>>
  /\ threeJSConfig \in {"pending", "loaded", "error"}
  /\ wait = NoWait

\* polls of the interval before the timeout of the call is due
MaxPolls == maxWaitTime \div PollPeriod

\* the loader finishes: window.threeJSConfig.loaded is set
LibraryLoads ==
  /\ threeJSConfig = "pending"
  /\ Set([State EXCEPT !.threeJSConfig = "loaded"])

\* the loader gives up: window.threeJSConfig.error is set
LibraryFails ==
  /\ threeJSConfig = "pending"
  /\ Set([State EXCEPT !.threeJSConfig = "error"])

CallWaitForThreeJS ==
  /\ ~wait.called
  /\ Set(waitForThreeJS(State))

\* the interval fires, PollPeriod after the previous check
PollInterval ==
  /\ wait.interval
  /\ wait.polls < MaxPolls
  /\ Set(checkThreeJS([State EXCEPT !.wait.polls = wait.polls + 1]))

\* the timeout fires, maxWaitTime after the call (before or after the poll
\* due at the same time)
FireTimeout ==
  /\ wait.timeout
  /\ wait.polls >= MaxPolls - 1
  /\ Set(waitTimeout(State))

WaitNext ==
  \/ LibraryLoads
  \/ LibraryFails
  \/ CallWaitForThreeJS
  \/ PollInterval
  \/ FireTimeout

SpecWait == WaitInit /\ [][WaitNext]_vars


\* ------------------------------------------- a call of startGPUTest ----
\* startGPUTest is a function declaration at the top level of the script,
\* a property of window that any script of the page can call (the wrapper
\* of debugMonitorCalls calls it that way): a call made between handlers,
\* in whatever state the page is in, on a document that may lack elements
CallStartGPUTest ==
  /\ dispatch = <<>>
  /\ starts < MaxCallStarts
  /\ \E level \in Levels, skew \in Skews :
       Set(startGPUTest(State, level, skew))

\* the steps of a run, at one instant of the clock (the rejection reads no
\* clock), and such calls
CallNext ==
  \/ AnimateFrame
  \/ FallbackFrame
  \/ Init3D
  \/ Init2D
  \/ InitNoWebGL
  \/ ClickStartButton
  \/ ClickLevelButton
  \/ ClickStopButton
  \/ RunDelegatedLevel
  \/ RunDelegatedStop
  \/ CallStartGPUTest

\* the page loaded from a document that has the test canvas or lacks it
CallInit == MissingInit /\ missing \subseteq {"testCanvas"}

SpecCall == CallInit /\ [][CallNext]_vars

\* ------------------------------------------- the scorers on their own ----
\* terminal statistics a run can end with: no sample (the reset values), or
\* extremes min <= max with an average between them (one below the minimum
\* when the two clock reads of the start differ)
FpsValues == {0, 1, 2, 9, 10, 17, 30, 45, 60, 75, 144, 1000}
TempValues == {BaseTemp * TempScale, 1410000, 75 * TempScale, 1500001,
               1648000, MaxTemp * TempScale}

\* the statistics of two runs with a steady frame rate: a 3D run around
\* 40 fps at 70 degrees and a 2D run around 25 fps
SteadyStats ==
  {[minFPS |-> 38, maxFPS |-> 42, avgFPS |-> 40, maxTemp |-> 70 * TempScale,
    stability |-> 100, score |-> 0],
   [minFPS |-> 20, maxFPS |-> 30, avgFPS |-> 25, maxTemp |-> BaseTemp * TempScale,
    stability |-> 100, score |-> 0]}

TerminalStats ==
  {InitialResults} \cup SteadyStats \cup
  {[minFPS |-> lo, maxFPS |-> hi, avgFPS |-> av, maxTemp |-> t,
    stability |-> 100, score |-> 0] :
     lo \in FpsValues, hi \in FpsValues, av \in FpsValues \cup {8, 16, 29},
     t \in TempValues}

ScoreInit ==
  /\ now = Epoch
  /\ userAgentMobile \in BOOLEAN
  /\ isMobile = userAgentMobile
  /\ scene = FALSE
  /\ appMode = "loading"
  /\ isTestRunning = FALSE
  /\ currentLevel \in Levels
  /\ testStartTime = 0
  /\ lastFPSUpdate = 0
  /\ frameCount = 0
  /\ totalFrames = 0
  /\ avgFPS = 0
  /\ simulatedTemp = BaseTemp * TempScale
  /\ testResults \in {r \in TerminalStats :
                        \/ r = InitialResults
                        \/ /\ r.minFPS <= r.maxFPS
                           /\ r.avgFPS <= r.maxFPS
                           /\ r.avgFPS >= r.minFPS - 1}
  /\ animationId = 0
  /\ fallbackAnimationId = 0
  /\ fpsChart = FALSE
  /\ raf = {}
  /\ gpuTestResults = [present |-> FALSE, valid |-> TRUE, value |-> <<>>]
  /\ dom = InitialDom
  /\ levelBtn = [onclick |-> "none", backup |-> 0]
  /\ delegated = 0
  /\ dispatch = <<>>
  /\ samples = 0
  /\ starts = 0
  /\ savedLog = <<>>
  /\ webgl = TRUE
  /\ missing = {}
  /\ testObjects = 0
  /\ sceneChildren = <<>>
  /\ threeJSConfig = "loaded"
  /\ wait = NoWait

\* calculateScore (full fidelity) applied to the terminal statistics
ScoreFull == Set(calculateScore(State))

\* the scoring of stopFallbackTest (reduced fidelity) applied to them
ScoreReduced == Set(fallbackScore(State))

ScoreNext == ScoreFull \/ ScoreReduced

SpecScore == ScoreInit /\ [][ScoreNext]_vars

\* ------------------------------------------- the history on its own ----
\* a record of an earlier session, as stored
OldResult(i) ==
  [level |-> "medium", score |-> i, avgFPS |-> 30, minFPS |-> 28,
   maxFPS |-> 33, maxTemp |-> 70, stability |-> 83, objects |-> 150,
   deviceType |-> "Desktop"]

StoredHistories ==
  {[present |-> FALSE, valid |-> TRUE, value |-> <<>>],
   [present |-> TRUE, valid |-> TRUE, value |-> <<>>],
   [present |-> TRUE, valid |-> TRUE, value |-> [i \in 1..9 |-> OldResult(i)]],
   [present |-> TRUE, valid |-> TRUE, value |-> [i \in 1..HistoryLimit |-> OldResult(i)]]}

StoreInit ==
  /\ now = Epoch
  /\ userAgentMobile = FALSE
  /\ isMobile = FALSE
  /\ scene = FALSE
  /\ appMode = "loading"
  /\ isTestRunning = FALSE
  /\ currentLevel = "medium"
  /\ testStartTime = 0
  /\ lastFPSUpdate = 0
  /\ frameCount = 0
  /\ totalFrames = 0
  /\ avgFPS = 0
  /\ simulatedTemp = BaseTemp * TempScale
  /\ testResults = InitialResults
  /\ animationId = 0
  /\ fallbackAnimationId = 0
  /\ fpsChart = FALSE
  /\ raf = {}
  /\ gpuTestResults \in StoredHistories
  /\ dom = InitialDom
  /\ levelBtn = [onclick |-> "none", backup |-> 0]
  /\ delegated = 0
  /\ dispatch = <<>>
  /\ samples = 0
  /\ starts = 0
  /\ savedLog = ParseStored(gpuTestResults)
  /\ webgl = TRUE
  /\ missing = {}
  /\ testObjects = 0
  /\ sceneChildren = <<>>
  /\ threeJSConfig = "loaded"
  /\ wait = NoWait

\* a 3D run ends with the given statistics: stopGPUTest scores and saves
StoreSave3D ==
  /\ Len(savedLog) < MaxSaves
  /\ \E stats \in {InitialResults} :
       Set(saveTestResults(calculateScore([State EXCEPT !.testResults = stats])))

\* a 2D run ends with the given statistics: stopFallbackTest scores and saves
StoreSave2D ==
  /\ Len(savedLog) < MaxSaves
  /\ \E stats \in {[InitialResults EXCEPT !.minFPS = 20, !.maxFPS = 30,
                                          !.avgFPS = 25]} :
       Set(saveTestResults(fallbackScore([State EXCEPT !.testResults = stats])))

StoreNext == StoreSave3D \/ StoreSave2D

SpecStore == StoreInit /\ [][StoreNext]_vars

\* ------------------------------------------------------ properties ----
\* a click listener that asks for a run to start is about to run
StartRequested ==
  /\ dispatch # <<>>
  /\ Head(dispatch).listener \in
       {"backup", "emergency", "direct", "delegatedLevel", "testAgain"}

\* C1: whatever terminal statistics a run ends with, both scorers leave
\* testResults.score an integer between 0 and 100
C1_ScoreInRange == testResults.score \in 0..100

\* a scorer has run on the statistics of a run that never sampled (minFPS
\* still Infinity), and on statistics whose raw score is negative
C1_Witness ==
  \/ testResults.minFPS = Infinity /\ testResults.score = 100
  \/ /\ testResults.maxFPS - testResults.minFPS > 30
     /\ testResults.avgFPS = 0
     /\ testResults.maxTemp = MaxTemp * TempScale
     /\ testResults.stability = 0

\* C2: both scorers leave testResults.stability a number between 0 and 100
C2_StabilityInRange == testResults.stability \in 0..100

\* C3: a start request that arrives while a run is active leaves the run's
\* level, start time, counters, statistics and scheduled callback unchanged
C3_StartWhileRunningIsNoOp ==
  [][(isTestRunning /\ StartRequested) =>
       UNCHANGED <<currentLevel, testStartTime, lastFPSUpdate, frameCount,
                   totalFrames, avgFPS, testResults, raf, animationId,
                   fallbackAnimationId>>]_vars

\* C4: the stored history is the ten most recently saved results, newest
\* first, and so has at most ten entries
C4_HistoryIsLastTen ==
  /\ Len(ParseStored(gpuTestResults)) <= HistoryLimit
  /\ ParseStored(gpuTestResults) =
       SubSeq(savedLog, 1, Min(Len(savedLog), HistoryLimit))

\* more than ten results have been saved, the last one by a run
C4_Witness ==
  /\ Len(savedLog) > HistoryLimit
  /\ Len(ParseStored(gpuTestResults)) = HistoryLimit
  /\ Head(savedLog).minFPS # 28

\* C5: once a sample has been emitted, minFPS <= avgFPS <= maxFPS
C5_MinAvgMax ==
  samples > 0 =>
    /\ testResults.minFPS <= testResults.avgFPS
    /\ testResults.avgFPS <= testResults.maxFPS

\* a frame callback of the active run has just run
FrameOfRun == isTestRunning /\ totalFrames' = totalFrames + 1

ZeroSampleResult == dom.testResults /\ ~isTestRunning /\ samples = 0

\* C7: a run stopped before any sample scores 30 in 3D and 20 in 2D
C7_ZeroSampleScore ==
  ZeroSampleResult =>
    testResults.score = IF dom.completedLevel = "3d" THEN 30 ELSE 20

\* C8: a terminal avgFPS of 0 gives a stability of 0
C8_ZeroAvgZeroStability ==
  (dom.testResults /\ ~isTestRunning /\ testResults.avgFPS = 0) =>
    testResults.stability = 0

\* C9: after a run without samples, both the results page and the newest
\* history record report minFPS as 0
C9_ZeroSampleMinFps ==
  ZeroSampleResult =>
    /\ dom.resultMinFps = 0
    /\ Head(ParseStored(gpuTestResults)).minFPS = 0

\* C10: once the run flag is cleared no frame callback remains scheduled
C10_NoCallbackAfterStop == ~isTestRunning => raf = {}

\* C11: a run appends exactly one record to the history, at the step that
\* stops it, and nothing is appended while no run is active
C11_OneResultPerRun ==
  [][/\ (isTestRunning /\ ~isTestRunning') =>
          Len(savedLog') = Len(savedLog) + 1
     /\ (~isTestRunning /\ ~isTestRunning') => savedLog' = savedLog]_vars

\* a scheduled frame callback is invoked
FrameStep == AnimateFrame \/ FallbackFrame

\* C12: a frame callback of an active run stops the run exactly when 30 full
\* seconds have passed since its start, and with the pump and the clock
\* going every active run comes to its end
C12_RunLastsThirtySeconds ==
  /\ [][(isTestRunning /\ FrameStep) =>
          (~isTestRunning' <=> (now - testStartTime) \div 1000 >= 30)]_vars
  /\ (isTestRunning ~> ~isTestRunning)

\* a run has been ended by its own callback after 30 seconds
C12_Witness ==
  /\ ~isTestRunning
  /\ dom.testResults
  /\ starts = 1
  /\ now - testStartTime >= 30000

\* C13: while a run is active a click on the stop button is handled, and
\* handling it clears the run flag and leaves no frame callback scheduled
C13_StopEndsRun ==
  /\ [](isTestRunning => delegated > 0)
  /\ [][(isTestRunning /\ dispatch # <<>> /\ Head(dispatch).listener = "stop")
          => (~isTestRunning' /\ raf' = {})]_vars

\* C14: a stored history that is not a parseable JSON array is treated as
\* empty and is never fatal: each run that ends, by the stop button or by its
\* timeout, still appends its result to the history and shows the results
\* page (checked on pages loaded over a malformed item)
C14_MalformedHistoryIsEmpty ==
  [][(isTestRunning /\ ~isTestRunning') =>
        /\ dom'.testResults
        /\ gpuTestResults'.valid
        /\ Len(ParseStored(gpuTestResults')) = 1
        /\ Len(savedLog') = Len(savedLog) + 1]_vars

\* C15: a failure to initialise the 3D path is recovered by the reduced
\* path: when the browser reports no WebGL or initThreeJS fails,
\* initialization ends in appMode '2d' with the event listeners bound
C15_InitFailureFallsBack ==
  [][(Init2D \/ InitNoWebGL) => (appMode' = "2d" /\ delegated' > 0)]_vars

\* C16: a display write whose target element is missing is skipped and
\* never throws: whatever elements the document lacks, a started run has its
\* frame callback scheduled, and a run that ends shows the results page
C16_MissingElementsAreSkipped ==
  /\ [](isTestRunning => raf # {})
  /\ [][(isTestRunning /\ ~isTestRunning') => dom'.testResults]_vars

\* the scene holds no cube and no light, and testObjects is empty
SceneIsClear ==
  /\ testObjects = 0
  /\ \A i \in DOMAIN sceneChildren :
        sceneChildren[i] \notin LightTypes \cup {"Mesh", "OrphanMesh"}

\* C17: when stopGPUTest has ended a 3D run, testObjects is empty and the
\* scene holds none of the cubes and none of the lights of the run
C17_StopReleasesResources ==
  [][(isTestRunning /\ ~isTestRunning' /\ testObjects > 0) => SceneIsClear']_vars

\* ---------------------------------------- the reference formulas ----
\* the baselines by level and device class
RefExpectedFPS ==
  [light   |-> [desktop |-> 45, mobile |-> 30],
   medium  |-> [desktop |-> 35, mobile |-> 22],
   heavy   |-> [desktop |-> 25, mobile |-> 15],
   extreme |-> [desktop |-> 18, mobile |-> 10]]

\* v = clamp(round(num / den), 0, 100) for den > 0, round to the nearest
\* integer with halves upwards: round(x) = k iff k - 1/2 <= x < k + 1/2
RefClampedRound(v, num, den) ==
  \/ v = 0 /\ 2 * num < den
  \/ v = 100 /\ 2 * num >= 199 * den
  \/ /\ v \in 1..99
     /\ 2 * v * den - den <= 2 * num
     /\ 2 * num < 2 * v * den + den

\* v = clamp(round(100 - (maxFPS - minFPS) / avgFPS * 100), 0, 100)
RefStability(v, r) ==
  RefClampedRound(v, 100 * r.avgFPS - 100 * (r.maxFPS - r.minFPS), r.avgFPS)

\* v = clamp(round(min(100, avgFPS / e * 60) - max(0, (maxTemp - 75) * 2)
\*                 + max(0, 30 - (maxFPS - minFPS))), 0, 100),
\* the three terms over the denominator e * TempScale
RefFullScore(v, r, e) ==
  RefClampedRound(v,
    Min(100 * e, 60 * r.avgFPS) * TempScale
      - Max(0, 2 * (r.maxTemp - 75 * TempScale)) * e
      + Max(0, 30 - (r.maxFPS - r.minFPS)) * e * TempScale,
    e * TempScale)

\* v = clamp(round(min(100, avgFPS / 50 * 70) + max(0, 20 - (maxFPS - minFPS))),
\*           0, 100), the two terms over the denominator 50
RefReducedScore(v, r) ==
  RefClampedRound(v,
    Min(100 * 50, 70 * r.avgFPS) + Max(0, 20 - (r.maxFPS - r.minFPS)) * 50,
    50)

\* the statistics are numbers the formulas are defined on
StatsAreFinite == IsFiniteNum(testResults.minFPS)

\* C18: for finite statistics calculateScore yields the score of the
\* full-fidelity reference formula, with the baseline of the level and the
\* device class (Light 45/30, Medium 35/22, Heavy 25/15, Extreme 18/10),
\* and, for an average above 0, the stability of the reference formula
C18_FullScoreMatchesReference ==
  [][(ScoreFull /\ StatsAreFinite) =>
       /\ RefFullScore(testResults'.score, testResults,
                       IF isMobile THEN RefExpectedFPS[currentLevel].mobile
                                   ELSE RefExpectedFPS[currentLevel].desktop)
       /\ testResults.avgFPS > 0 =>
             RefStability(testResults'.stability, testResults)]_vars

\* Medium on a desktop with average 40, minimum 38, maximum 42 and 70
\* degrees has been scored: 95, with stability 90
C18_Witness ==
  /\ currentLevel = "medium"
  /\ ~isMobile
  /\ testResults = [minFPS |-> 38, maxFPS |-> 42, avgFPS |-> 40,
                    maxTemp |-> 70 * TempScale, stability |-> 90, score |-> 95]

C20_ReducedFpsTermAtMost70 ==
  [][ScoreReduced => fallbackFpsScoreN(testResults.avgFPS, 50) <= 70 * 50]_vars

\* C21: scoring is idempotent: applied to statistics it has already scored,
\* each scorer yields the same score and stability again (what it writes is
\* not among what it reads)
C21_ScoringIsIdempotent ==
  /\ calculateScore(calculateScore(State)).testResults =
       calculateScore(State).testResults
  /\ fallbackScore(fallbackScore(State)).testResults =
       fallbackScore(State).testResults

\* sampled statistics have been scored, with a score and a stability inside
\* the range, and scoring them again changes nothing
C21_Witness ==
  /\ testResults.minFPS # Infinity
  /\ testResults.score \in 1..99
  /\ testResults.stability \in 1..99
  /\ calculateScore(State).testResults = testResults

\* C22: every start of a run resets the sampler and the aggregator: the
\* frame counts hold no frame of an earlier run (at most the frame
\* startGPUTest renders itself), the window starts at the test start time,
\* and minFPS = Infinity, maxFPS = 0, avgFPS = 0, maxTemp = 65
C22_StartResets ==
  [][(starts' = starts + 1) =>
       /\ frameCount' = totalFrames'
       /\ totalFrames' \in {0, 1}
       /\ lastFPSUpdate' = testStartTime'
       /\ testResults' = InitialResults]_vars

\* the sample k = round(frames / (window / 1000)) has been folded into the
\* extremes
SampleEmitted(frames, window) ==
  \E k \in 0..frames :
    /\ 2 * k * window - window <= 2 * frames * 1000
    /\ 2 * frames * 1000 < 2 * k * window + window
    /\ testResults'.minFPS = JsMin(testResults.minFPS, k)
    /\ testResults'.maxFPS = JsMax(testResults.maxFPS, k)

C24_TemperatureBounds ==
  /\ [](simulatedTemp <= 90 * TempScale)
  /\ [](/\ 65 * TempScale <= testResults.maxTemp
        /\ testResults.maxTemp <= 90 * TempScale)
  /\ [][(isTestRunning /\ isTestRunning') =>
          testResults'.maxTemp >= testResults.maxTemp]_vars
  /\ [][(isTestRunning /\ AnimateFrame /\ samples' = samples + 1) =>
          testResults'.maxTemp = Max(testResults.maxTemp, simulatedTemp')]_vars

\* a sample late in an Extreme run has computed the temperature 90, where
\* the formula without its limit gives more
C24_Witness ==
  /\ isTestRunning
  /\ samples > 0
  /\ simulatedTemp = 90 * TempScale
  /\ testResults.maxTemp = 90 * TempScale
  /\ lastFPSUpdate = now
  /\ 65 * TempScale + (now - testStartTime) * 16 + 29999 > 90 * TempScale

\* C25: the average is never computed over zero elapsed time: whenever a
\* frame callback emits a sample, and with it avgFPS = round(totalFrames /
\* elapsedSeconds), at least 1000 ms have passed since the test start
C25_AverageOverAtLeastOneSecond ==
  [][(isTestRunning /\ FrameStep /\ samples' = samples + 1) =>
       now - testStartTime >= 1000]_vars

\* a 2D run has emitted its first sample exactly one second after its start
C25_Witness ==
  /\ isTestRunning
  /\ appMode = "2d"
  /\ samples = 1
  /\ lastFPSUpdate = now
  /\ now - testStartTime = 1000
  /\ testResults.avgFPS = totalFrames

\* C26: at most one frame-callback chain is alive: never more than one
\* scheduled callback of the test loops, whatever listeners of one click on a
\* level button ask for a start
C26_AtMostOneChain == Cardinality(raf) <= 1

\* C27: between handlers the run flag is set only while a frame callback of
\* the run is scheduled: no start that fails partway leaves isTestRunning
\* true with nothing pending
C27_RunningHasCallback == isTestRunning => Cardinality(raf) > 0

\* C28: a call of waitForThreeJS delivers its outcome at most once (the
\* callback at most once, and not after an error or the timeout was
\* reported), and once an outcome is delivered neither the interval nor the
\* timeout of the call remains armed, also when the library is found loaded
\* by the first check
C28_OutcomeAtMostOnce ==
  /\ wait.callbacks + wait.errors <= 1
  /\ wait.callbacks + wait.errors > 0 => (~wait.interval /\ ~wait.timeout)

\* C29: showHomePage, whenever it runs, ends the run without a result:
\* after it the run flag is clear, no frame callback is scheduled and both
\* handles are null, the counters and testResults have their initial values,
\* testObjects is empty and the stored history is as before
C29_HomeEndsRunWithoutResult ==
  [][(dispatch # <<>> /\ Head(dispatch).listener = "home") =>
       /\ ~isTestRunning'
       /\ raf' = {}
       /\ animationId' = 0 /\ fallbackAnimationId' = 0
       /\ frameCount' = 0 /\ totalFrames' = 0
       /\ testResults' = InitialResults
       /\ testObjects' = 0
       /\ gpuTestResults' = gpuTestResults
       /\ savedLog' = savedLog]_vars

\* C30: in every state without an active run in which the test canvas is
\* missing or the scene is not initialized, a call of startGPUTest, at any
\* level, only shows the error: the run flag stays false, currentLevel, the
\* start time, the counters and testResults are unchanged and no frame
\* callback is scheduled (nothing but the error display differs)
C30_RejectedStartChangesNothing ==
  (~isTestRunning /\ ("testCanvas" \in missing \/ ~scene)) =>
    \A level \in Levels, skew \in Skews :
      LET t == startGPUTest(State, level, skew)
      IN /\ t.dom.error
         /\ ~t.isTestRunning
         /\ t.raf = raf
         /\ t = [State EXCEPT !.dom.error = TRUE]

\* such a call was made while the page was still loading in a browser with
\* WebGL (no initialization has shown an error): the error is visible and
\* no run has started
C30_Witness ==
  /\ dom.error /\ webgl /\ appMode = "loading" /\ ~scene
  /\ ~isTestRunning /\ raf = {} /\ starts = 0
  /\ testStartTime = 0 /\ testResults = InitialResults

====
